---- MODULE Spec2Model ----
(***************************************************************************)
(* Health Coach API (src/main.py): the request handlers of /api/routine,   *)
(* /api/nutrition, /api/follow_up and /api/chat, the response cache, the   *)
(* per-caller context documents and the LLM completion call, as a state    *)
(* machine.  Handlers are asyncio coroutines: the Firestore client is      *)
(* synchronous, so the only point where a handler yields to other requests *)
(* is the aiohttp call to the LLM provider.  Each handler is therefore two *)
(* atomic steps: everything up to the POST, and everything after it.       *)
(***************************************************************************)
EXTENDS Integers, Sequences, FiniteSets, Bags, TLC

(***************************************************************************)
(* Bounds of the model.                                                    *)
(***************************************************************************)
\* Requests received in one run of Spec, and in one run of SpecLong.
MaxRequests == 2
MaxRequestsLong == 3
\* Times the clock is seen to advance.
MaxTicks == 2

(***************************************************************************)
(* Program constants.                                                      *)
(***************************************************************************)
CACHE_TIMEOUT == 86400
\* The clock readings of the model: 0, then half the cache timeout, then a
\* whole cache timeout more at every tick, so that cache entries are seen at
\* an age below, equal to and above CACHE_TIMEOUT.
NextReading(t) == IF t = 0 THEN CACHE_TIMEOUT \div 2 ELSE t + CACHE_TIMEOUT
RECURSIVE Reading(_)
Reading(n) == IF n = 0 THEN 0 ELSE NextReading(Reading(n - 1))

(***************************************************************************)
(* State                                                                   *)
(***************************************************************************)
VARIABLES
  API_KEY,          \* whether LLM_API_KEY is set for the running process
  now,              \* time.time()
  response_cache,   \* collection response_cache: cache key -> {response, timestamp}
  user_requests,    \* collection user_requests: user id -> context document
  conversations,    \* collection conversations: user id -> last chat turn
  inflight,         \* the handlers suspended in the POST to the provider (a bag)
  started,          \* number of requests received so far
  budget,           \* number of requests the run receives at most
  last,             \* what the handler step just taken did, if the step was one
  first_done,       \* history: cache key -> the first answer computed and stored for it
  cache_owner,      \* history: cache key -> the caller whose request wrote the entry
  completed,        \* history: <<endpoint, identity, body>> of the requests answered by the provider
  payload,          \* fingerprint check: a payload,
  reordered,        \*   the same payload with its keys in another order,
  fingerprints      \*   and the cache keys computed for the two

vars == <<API_KEY, now, response_cache, user_requests, conversations, inflight,
          started, budget, last, first_done, cache_owner, completed, payload, reordered, fingerprints>>
stores == <<response_cache, user_requests, conversations>>
fpvars == <<payload, reordered, fingerprints>>
history == <<first_done, cache_owner, completed>>

(***************************************************************************)
(* Values.  A Python dict is an ordered mapping: a sequence of <<key,      *)
(* value>> pairs with distinct keys, in insertion order.  A list of        *)
(* strings is a sequence of strings.  An optional value is a sequence of   *)
(* length 0 (None) or 1.                                                   *)
(***************************************************************************)
None == <<>>
Some(v) == <<v>>
IsNone(o) == Len(o) = 0
TheValue(o) == o[1]

\* Keys whose value is itself a mapping (Dict[str, Any] fields).
MapKeys == {"current_body_composition", "original_request_data", "m"}

\* Every key of the model in Python's string order (code-point order), which
\* is the order json.dumps(sort_keys=True) sorts by.
SortedKeys ==
  << "a", "activity_level", "b", "challenges", "conversation_history",
     "current_body_composition", "easiness_of_regimen",
     "existing_supplements", "fat", "follow_up_question",
     "food_sensitivities", "m", "macronutrient_preferences", "message",
     "nature_of_commutes", "nature_of_traveling", "observation_level",
     "original_request_data", "original_request_type", "peak_mode",
     "sleep_chronotype", "target_goal", "user_id", "weight", "x", "y" >>

KeyRank(k) == CHOOSE i \in 1..Len(SortedKeys) : SortedKeys[i] = k

DictKeys(d) == {d[i][1] : i \in 1..Len(d)}
HasKey(d, k) == k \in DictKeys(d)
\* d[k]
DictItem(d, k) == d[CHOOSE i \in 1..Len(d) : d[i][1] = k][2]
\* d.get(k, default)
DictGet(d, k, default) == IF HasKey(d, k) THEN DictItem(d, k) ELSE default
\* d[k] = v: an existing key keeps its position, a new key is appended.
DictSet(d, k, v) ==
  IF HasKey(d, k)
    THEN [i \in 1..Len(d) |-> IF d[i][1] = k THEN <<k, v>> ELSE d[i]]
    ELSE Append(d, <<k, v>>)

\* The pairs of d sorted by key (insertion sort on KeyRank).
RECURSIVE InsertByKey(_, _)
InsertByKey(p, s) ==
  IF s = <<>> THEN <<p>>
  ELSE IF KeyRank(p[1]) <= KeyRank(Head(s)[1]) THEN <<p>> \o s
  ELSE <<Head(s)>> \o InsertByKey(p, Tail(s))

RECURSIVE SortByKey(_)
SortByKey(d) ==
  IF d = <<>> THEN <<>> ELSE InsertByKey(Head(d), SortByKey(Tail(d)))

\* json.dumps(data) without sort_keys: the members in insertion order.
json_dumps_unsorted(d) == d

\* json.dumps(data, sort_keys=True): the keys of the mapping and of every
\* nested mapping are written in sorted order; lists keep their order.  The
\* JSON text is represented by the sequence of its members.
RECURSIVE json_dumps_sorted(_)
json_dumps_sorted(d) ==
  LET s == SortByKey(d)
  IN [i \in 1..Len(s) |->
        <<s[i][1], IF s[i][1] \in MapKeys THEN json_dumps_sorted(s[i][2])
                                           ELSE s[i][2]>>]

\* hashlib.md5(...).hexdigest(): a digest of the serialized text.  Distinct
\* texts of the model get distinct digests (no collision among them).
md5_hexdigest(text) == <<"md5", text>>

generate_cache_key(data) == md5_hexdigest(json_dumps_sorted(data))

(***************************************************************************)
(* Request models (pydantic), as the mappings request.dict() returns: the  *)
(* fields in declaration order (integers as their decimal text).           *)
(* NutritionRequest's remaining scalar fields are rendered exactly like    *)
(* activity_level and are left out.  The state machine receives one body   *)
(* per endpoint (two for chat, which carries a user_id); the prompt        *)
(* builders and the cache key are applied to more bodies in SpecPure.      *)
(***************************************************************************)
RoutineRequest(peak_mode, challenges) ==
  << <<"peak_mode", peak_mode>>, <<"sleep_chronotype", "Bear">>,
     <<"nature_of_commutes", "Train">>, <<"nature_of_traveling", "Rare">>,
     <<"easiness_of_regimen", "5">>, <<"observation_level", "7">>,
     <<"challenges", challenges>> >>

RoutineRequests ==
  { RoutineRequest("Focus", <<"sleep">>) }

NutritionRequest(food_sensitivities, existing_supplements) ==
  << <<"current_body_composition", << <<"weight", "80">>, <<"fat", "20">> >> >>,
     <<"target_goal", "Lean">>, <<"activity_level", "Active">>,
     <<"macronutrient_preferences", "Balanced">>,
     <<"food_sensitivities", food_sensitivities>>,
     <<"existing_supplements", existing_supplements>> >>

NutritionRequests ==
  { NutritionRequest(<<"gluten">>, <<>>) }

FollowUpRequest(original_request_type, original_request_data) ==
  << <<"user_id", "X">>, <<"original_request_type", original_request_type>>,
     <<"original_request_data", original_request_data>>,
     <<"follow_up_question", "why">> >>

FollowUpRequests ==
  { FollowUpRequest("routine", RoutineRequest("Focus", <<"sleep">>)) }

\* user_id defaults to "anonymous", conversation_history to [].
ChatRequest(message, user_id) ==
  << <<"message", message>>, <<"user_id", user_id>>,
     <<"conversation_history", <<>> >> >>

ChatRequests == { ChatRequest("hello", u) : u \in {"anonymous", "X"} }

\* The Authorization header, as the list auth_header.split(" ") of a present
\* header; None when the request carries no such header.
Headers == { None, Some(<<"Bearer", "X">>) }

(***************************************************************************)
(* Authentication                                                          *)
(***************************************************************************)
\* auth_header.startswith("Bearer ")
StartsWithBearer(parts) == Len(parts) >= 2 /\ parts[1] = "Bearer"

\* Returns the token as an optional string.
get_token_from_header(header) ==
  IF ~IsNone(header) /\ StartsWithBearer(TheValue(header))
    THEN Some(TheValue(header)[2])
    ELSE None

\* Python truthiness of an optional string: None and "" are false.
TruthyStr(o) == ~IsNone(o) /\ TheValue(o) # ""

\* get_token_from_header(client_request) or "anonymous"
TokenOrAnonymous(header) ==
  IF TruthyStr(get_token_from_header(header))
    THEN TheValue(get_token_from_header(header))
    ELSE "anonymous"

(***************************************************************************)
(* Firestore: a collection is a function from document ids to documents, a *)
(* document a function from field names to values.                         *)
(***************************************************************************)
DocExists(coll, id) == id \in DOMAIN coll
\* document(id).set(fields)
DocSet(coll, id, fields) == (id :> fields) @@ coll
\* set(fields, merge=True) with the merge flag dropped.
DocSetReplace(coll, id, fields) == DocSet(coll, id, fields)

\* document(id).set(fields, merge=True)
DocSetMerge(coll, id, fields) ==
  IF DocExists(coll, id) THEN (id :> (fields @@ coll[id])) @@ coll
                         ELSE (id :> fields) @@ coll

(***************************************************************************)
(* Cache utilities                                                         *)
(***************************************************************************)
\* check_cache with the age comparison the wrong way round.
check_cache_inverted(cache, cache_key, t) ==
  IF DocExists(cache, cache_key)
     /\ t - cache[cache_key].timestamp > CACHE_TIMEOUT
    THEN Some(cache[cache_key].response)
    ELSE None

\* check_cache without the age comparison.
check_cache_no_expiry(cache, cache_key, t) ==
  IF DocExists(cache, cache_key) THEN Some(cache[cache_key].response) ELSE None

\* check_cache counting an entry of age exactly CACHE_TIMEOUT as still valid.
check_cache_inclusive(cache, cache_key, t) ==
  IF DocExists(cache, cache_key)
     /\ t - cache[cache_key].timestamp <= CACHE_TIMEOUT
    THEN Some(cache[cache_key].response)
    ELSE None

\* check_cache: the optional cached response at clock reading t.
check_cache(cache, cache_key, t) ==
  IF DocExists(cache, cache_key)
     /\ t - cache[cache_key].timestamp < CACHE_TIMEOUT
    THEN Some(cache[cache_key].response)
    ELSE None

save_to_cache(cache, cache_key, response, t) ==
  DocSet(cache, cache_key, [response |-> response, timestamp |-> t])

(***************************************************************************)
(* Prompt construction.  A prompt is the sequence of its interpolated      *)
(* lines <<label, text>>, a text being a sequence of tokens; the fixed     *)
(* wording of the templates is not represented.                            *)
(***************************************************************************)
\* ', '.join(xs)
RECURSIVE Join(_)
Join(xs) ==
  IF Len(xs) <= 1 THEN xs ELSE <<Head(xs), ", ">> \o Join(Tail(xs))

\* The attributes of a dict object: its methods.  A dict's keys are not
\* attributes.
DictAttributes ==
  {"clear", "copy", "fromkeys", "get", "items", "keys", "pop", "popitem",
   "setdefault", "update", "values"}
\* hasattr(data, name) for a dict
HasAttr(data, name) == name \in DictAttributes

\* str() of a mapping inside an f-string: its keys and values in order.
RECURSIVE ReprDict(_)
ReprDict(d) ==
  IF d = <<>> THEN <<>> ELSE <<Head(d)[1], Head(d)[2]>> \o ReprDict(Tail(d))

Contains(prompt, word) ==
  \E i \in 1..Len(prompt) : \E j \in 1..Len(prompt[i][2]) : prompt[i][2][j] = word
Line(prompt, label) ==
  prompt[CHOOSE i \in 1..Len(prompt) : prompt[i][1] = label][2]

construct_routine_prompt(data) ==
  << <<"Peak Mode", <<DictItem(data, "peak_mode")>> >>,
     <<"Sleep Chronotype", <<DictItem(data, "sleep_chronotype")>> >>,
     <<"Nature of Commutes", <<DictItem(data, "nature_of_commutes")>> >>,
     <<"Nature of Traveling", <<DictItem(data, "nature_of_traveling")>> >>,
     <<"Easiness of Regimen", <<DictItem(data, "easiness_of_regimen")>> >>,
     <<"Observation Level", <<DictItem(data, "observation_level")>> >>,
     <<"Challenges", Join(DictItem(data, "challenges"))>> >>

construct_nutrition_prompt(data) ==
  LET challenges_text ==
        IF HasAttr(data, "challenges") /\ DictItem(data, "challenges") # <<>>
          THEN <<"Challenges: ">> \o Join(DictItem(data, "challenges"))
          ELSE <<>>
      peak_mode == DictGet(data, "peak_mode", "Physique")
  IN << <<"Target Goal", <<DictItem(data, "target_goal")>> >>,
        <<"Current Body Composition",
          ReprDict(DictItem(data, "current_body_composition"))>>,
        <<"Activity Level", <<DictItem(data, "activity_level")>> >>,
        <<"Macronutrient Preferences",
          <<DictItem(data, "macronutrient_preferences")>> >>,
        <<"Food Sensitivities",
          IF DictItem(data, "food_sensitivities") # <<>>
            THEN Join(DictItem(data, "food_sensitivities"))
            ELSE <<"None">> >>,
        <<"Existing Supplements", Join(DictItem(data, "existing_supplements"))>>,
        <<"Peak Mode", <<peak_mode>> >>,
        <<"challenges_text", challenges_text>>,
        <<"Based on your focus", <<peak_mode>> >> >>

construct_follow_up_prompt(data) ==
  LET original_type == DictItem(data, "original_request_type")
      original_data == DictItem(data, "original_request_data")
      context ==
        IF original_type = "routine"
          THEN << <<"Peak Mode", <<DictGet(original_data, "peak_mode", "None")>> >>,
                  <<"Sleep Chronotype",
                    <<DictGet(original_data, "sleep_chronotype", "None")>> >>,
                  <<"Challenges", Join(DictGet(original_data, "challenges", <<>>))>> >>
          ELSE << <<"Target Goal", <<DictGet(original_data, "target_goal", "None")>> >>,
                  <<"Macronutrient Preferences",
                    <<DictGet(original_data, "macronutrient_preferences", "None")>> >>,
                  <<"Carb Tolerance",
                    <<DictGet(original_data, "carb_tolerance", "None")>> >>,
                  <<"Protein Source",
                    <<DictGet(original_data, "protein_source_preference", "None")>> >> >>
  IN context \o << <<"Now they're asking", <<DictItem(data, "follow_up_question")>> >> >>

\* Reads the caller's user_requests document (user_docs is the collection).
construct_chat_prompt(data, user_docs) ==
  LET user_id == DictGet(data, "user_id", "anonymous")
      user_data == user_docs[user_id]
      routine_context ==
        IF DocExists(user_docs, user_id) /\ "last_routine_request" \in DOMAIN user_data
          THEN << <<"routine plan with peak mode",
                    <<DictGet(user_data.last_routine_request, "peak_mode", "None")>> >>,
                  <<"identified challenges",
                    Join(DictGet(user_data.last_routine_request, "challenges", <<>>))>> >>
          ELSE <<>>
      nutrition_context ==
        IF DocExists(user_docs, user_id) /\ "last_nutrition_request" \in DOMAIN user_data
          THEN << <<"nutrition plan with target goal",
                    <<DictGet(user_data.last_nutrition_request, "target_goal", "None")>> >>,
                  <<"macronutrient preferences",
                    <<DictGet(user_data.last_nutrition_request,
                              "macronutrient_preferences", "None")>> >> >>
          ELSE <<>>
  IN routine_context \o nutrition_context
       \o << <<"message", <<DictItem(data, "message")>> >> >>

(***************************************************************************)
(* The LLM completion call                                                 *)
(***************************************************************************)
\* What the provider does with a POST: a 200 with a completion, a non-200
\* status, a connection-level failure (aiohttp.ClientError), or a 200 whose
\* JSON lacks the expected members (KeyError in call_llm_api).
Outputs == {"plan A"}
ErrorStatuses == {429}
ProviderOutcomes ==
  {[kind |-> "ok", status |-> 200, output |-> o] : o \in Outputs}
    \cup {[kind |-> "status", status |-> s, output |-> ""] : s \in ErrorStatuses}
    \cup {[kind |-> "client_error", status |-> 0, output |-> ""],
          [kind |-> "malformed", status |-> 200, output |-> ""]}

\* Exceptions: HTTPException(status_code), aiohttp.ClientError, KeyError, and
\* the Firestore client's error.  All derive from Exception.
HTTPException(status_code) == [class |-> "HTTPException", status_code |-> status_code]
ClientError == [class |-> "ClientError", status_code |-> 0]
KeyError == [class |-> "KeyError", status_code |-> 0]
StorageError == [class |-> "StorageError", status_code |-> 0]
IsInstance(e, class) == class = "Exception" \/ e.class = class

\* The outcome of a call: a returned value or a raised exception.
Return(v) == [raised |-> None, value |-> Some(v)]
Raise(e) == [raised |-> Some(e), value |-> None]
Raised(r) == ~IsNone(r.raised)

\* call_llm_api without the credential check.
credential_check_skipped(api_key) == Return("checked")

\* call_llm_api, lines 150-155: the credential check, after the prompt is
\* built and before the POST.
credential_check(api_key) ==
  IF ~api_key THEN Raise(HTTPException(500)) ELSE Return("checked")

\* call_llm_api, lines 183-213: the handling of the provider's answer.  The
\* HTTPException for a non-200 status is raised inside the try block, whose
\* except clauses are tried in order.
call_llm_api_response(outcome, t) ==
  LET try ==
        IF outcome.kind = "ok"
          THEN Return([output |-> outcome.output, model |-> "gpt-4o", timestamp |-> t])
        ELSE IF outcome.kind = "status" THEN Raise(HTTPException(outcome.status))
        ELSE IF outcome.kind = "client_error" THEN Raise(ClientError)
        ELSE Raise(KeyError)
  IN IF ~Raised(try) THEN try
     ELSE IF IsInstance(TheValue(try.raised), "ClientError")
       THEN Raise(HTTPException(503))
     ELSE IF IsInstance(TheValue(try.raised), "Exception")
       THEN Raise(HTTPException(500))
     ELSE try

\* The endpoints' "except Exception as e: raise HTTPException(status_code=500)".
endpoint_except(e) ==
  IF IsInstance(e, "Exception") THEN HTTPException(500) ELSE e

\* An exception that leaves a handler outside any try block is answered by
\* the framework with 500 Internal Server Error.
unhandled(e) == HTTPException(500)

(***************************************************************************)
(* Handler steps.  A step's result: whether the handler has answered       *)
(* ("respond") or is waiting for the provider ("await"), the HTTP status   *)
(* and body of the answer, the operations it performed in order (ops), and *)
(* the handler's locals that the second step needs.                        *)
(***************************************************************************)
Respond(status, response, ops, locals) ==
  [next |-> "respond", status |-> status, response |-> response, ops |-> ops,
   locals |-> locals]
Await(ops, locals) ==
  [next |-> "await", status |-> 0, response |-> None, ops |-> ops,
   locals |-> locals]
Locals(request, cache_key, cached_response, user_id, prompt) ==
  [request |-> request, cache_key |-> cache_key,
   cached_response |-> cached_response, user_id |-> user_id, prompt |-> prompt]

\* generate_nutrition_plan, lines 445-451: peak mode and challenges of the
\* caller's last routine request are added to the request data.
enrich(request, user_docs, user_id) ==
  IF DocExists(user_docs, user_id)
     /\ "last_routine_request" \in DOMAIN user_docs[user_id]
    THEN LET routine_data == user_docs[user_id].last_routine_request
         IN DictSet(DictSet(request, "peak_mode",
                            DictGet(routine_data, "peak_mode", "None")),
                    "challenges", DictGet(routine_data, "challenges", <<>>))
    ELSE request

\* A cache key computed from the request data after enrichment.
nutrition_cache_key_enriched(request, header) ==
  generate_cache_key(enrich(request, user_requests, TokenOrAnonymous(header)))

\* A cache key that also covers the caller.
routine_cache_key_per_caller(request, header) ==
  generate_cache_key(DictSet(request, "user_id", TokenOrAnonymous(header)))

\* generate_routine, line 403
routine_cache_key(request, header) == generate_cache_key(request)
\* generate_nutrition_plan, line 432
nutrition_cache_key(request, header) == generate_cache_key(request)

\* generate_routine recording the request in the caller's context on a cache
\* hit as well.
generate_routine_begin_merge_on_hit(request, header, cache, api_key, t, fault) ==
  LET cache_key == routine_cache_key(request, header)
      cached_response == check_cache(cache, cache_key, t)
      prompt == construct_routine_prompt(request)
      locals == Locals(request, Some(cache_key), None, None, None)
  IN IF fault = "cache_read"
       THEN Respond(unhandled(StorageError).status_code, None,
                    <<"cache_read_raised">>, locals)
     ELSE IF ~IsNone(cached_response)
       THEN Respond(200, cached_response,
                    <<"cache_read", "resolve_identity", "context_write">>,
                    Locals(request, Some(cache_key), cached_response,
                           Some(TokenOrAnonymous(header)), None))
     ELSE IF Raised(credential_check(api_key))
       THEN Respond(endpoint_except(TheValue(credential_check(api_key).raised)).status_code,
                    None, <<"cache_read", "build_prompt", "credential_missing">>, locals)
     ELSE Await(<<"cache_read", "build_prompt", "llm_post">>,
                Locals(request, Some(cache_key), None, None, Some(prompt)))

\* generate_routine, lines 402-412 up to the POST inside call_llm_api.
\* fault names the storage operation of this step that raises, if any.
generate_routine_begin(request, header, cache, api_key, t, fault) ==
  LET cache_key == routine_cache_key(request, header)
      cached_response == check_cache(cache, cache_key, t)
      prompt == construct_routine_prompt(request)
      locals == Locals(request, Some(cache_key), None, None, None)
  IN IF fault = "cache_read"
       THEN Respond(unhandled(StorageError).status_code, None,
                    <<"cache_read_raised">>, locals)
     ELSE IF ~IsNone(cached_response)
       THEN Respond(200, cached_response, <<"cache_read">>,
                    Locals(request, Some(cache_key), cached_response, None, None))
     ELSE IF Raised(credential_check(api_key))
       THEN Respond(endpoint_except(TheValue(credential_check(api_key).raised)).status_code,
                    None, <<"cache_read", "build_prompt", "credential_missing">>, locals)
     ELSE Await(<<"cache_read", "build_prompt", "llm_post">>,
                Locals(request, Some(cache_key), None, None, Some(prompt)))

\* generate_nutrition_plan, lines 431-455 up to the POST.
generate_nutrition_begin(request, header, cache, user_docs, api_key, t, fault) ==
  LET cache_key == nutrition_cache_key(request, header)
      cached_response == check_cache(cache, cache_key, t)
      user_id == TokenOrAnonymous(header)
      request_data == enrich(request, user_docs, user_id)
      prompt == construct_nutrition_prompt(request_data)
      locals == Locals(request, Some(cache_key), None, None, None)
      located == Locals(request, Some(cache_key), None, Some(user_id), None)
  IN IF fault = "cache_read"
       THEN Respond(unhandled(StorageError).status_code, None,
                    <<"cache_read_raised">>, locals)
     ELSE IF ~IsNone(cached_response)
       THEN Respond(200, cached_response, <<"cache_read">>,
                    Locals(request, Some(cache_key), cached_response, None, None))
     ELSE IF fault = "context_read"
       THEN Respond(unhandled(StorageError).status_code, None,
                    <<"cache_read", "resolve_identity", "context_read_raised">>,
                    located)
     ELSE IF Raised(credential_check(api_key))
       THEN Respond(endpoint_except(TheValue(credential_check(api_key).raised)).status_code,
                    None,
                    <<"cache_read", "resolve_identity", "context_read",
                      "build_prompt", "credential_missing">>, located)
     ELSE Await(<<"cache_read", "resolve_identity", "context_read",
                  "build_prompt", "llm_post">>,
                Locals(request, Some(cache_key), None, Some(user_id), Some(prompt)))

\* handle_follow_up, lines 474-475 up to the POST.
handle_follow_up_begin(request, header, api_key) ==
  LET prompt == construct_follow_up_prompt(request)
      locals == Locals(request, None, None, None, None)
  IN IF Raised(credential_check(api_key))
       THEN Respond(endpoint_except(TheValue(credential_check(api_key).raised)).status_code,
                    None, <<"build_prompt", "credential_missing">>, locals)
     ELSE Await(<<"build_prompt", "llm_post">>,
                Locals(request, None, None, None, Some(prompt)))

\* process_chat_message, lines 377-379: request.user_id = token if token.
chat_request_with_identity(request, header) ==
  IF TruthyStr(get_token_from_header(header))
    THEN DictSet(request, "user_id", TheValue(get_token_from_header(header)))
    ELSE request

\* process_chat_message reading the context of the body's user_id before the
\* token is looked at.
process_chat_message_begin_late_identity(request, header, user_docs, api_key, fault) ==
  LET identified == chat_request_with_identity(request, header)
      user_id == DictItem(identified, "user_id")
      prompt == construct_chat_prompt(request, user_docs)
      locals == Locals(identified, None, None, Some(user_id), None)
  IN IF fault = "context_read"
       THEN Respond(endpoint_except(StorageError).status_code, None,
                    <<"context_read_raised">>, locals)
     ELSE IF Raised(credential_check(api_key))
       THEN Respond(endpoint_except(TheValue(credential_check(api_key).raised)).status_code,
                    None,
                    <<"context_read", "resolve_identity", "build_prompt",
                      "credential_missing">>, locals)
     ELSE Await(<<"context_read", "resolve_identity", "build_prompt", "llm_post">>,
                Locals(identified, None, None, Some(user_id), Some(prompt)))

\* process_chat_message answering from the response cache like the plan
\* endpoints do.
process_chat_message_begin_cached(request, header, user_docs, api_key, fault) ==
  LET identified == chat_request_with_identity(request, header)
      user_id == DictItem(identified, "user_id")
      cache_key == generate_cache_key(identified)
      cached_response == check_cache(response_cache, cache_key, now)
      prompt == construct_chat_prompt(identified, user_docs)
      locals == Locals(identified, Some(cache_key), None, Some(user_id), None)
  IN IF ~IsNone(cached_response)
       THEN Respond(200, cached_response, <<"resolve_identity", "cache_read">>, locals)
     ELSE IF Raised(credential_check(api_key))
       THEN Respond(endpoint_except(TheValue(credential_check(api_key).raised)).status_code,
                    None,
                    <<"resolve_identity", "cache_read", "context_read",
                      "build_prompt", "credential_missing">>, locals)
     ELSE Await(<<"resolve_identity", "cache_read", "context_read",
                  "build_prompt", "llm_post">>,
                Locals(identified, Some(cache_key), None, Some(user_id), Some(prompt)))

\* process_chat_message, lines 375-382 up to the POST.
process_chat_message_begin(request, header, user_docs, api_key, fault) ==
  LET identified == chat_request_with_identity(request, header)
      user_id == DictItem(identified, "user_id")
      prompt == construct_chat_prompt(identified, user_docs)
      locals == Locals(identified, None, None, Some(user_id), None)
  IN IF fault = "context_read"
       THEN Respond(endpoint_except(StorageError).status_code, None,
                    <<"resolve_identity", "context_read_raised">>, locals)
     ELSE IF Raised(credential_check(api_key))
       THEN Respond(endpoint_except(TheValue(credential_check(api_key).raised)).status_code,
                    None,
                    <<"resolve_identity", "context_read", "build_prompt",
                      "credential_missing">>, locals)
     ELSE Await(<<"resolve_identity", "context_read", "build_prompt", "llm_post">>,
                Locals(identified, None, None, Some(user_id), Some(prompt)))

\* The nutrition merge without merge=True: the document is replaced.
merge_nutrition_overwrite(user_docs, user_id, request, t) ==
  DocSet(user_docs, user_id, [last_nutrition_request |-> request, timestamp |-> t])

\* The context writes: document(user_id).set({...}, merge=True).
merge_routine(user_docs, user_id, request, t) ==
  DocSetMerge(user_docs, user_id, [last_routine_request |-> request, timestamp |-> t])
merge_nutrition(user_docs, user_id, request, t) ==
  DocSetMerge(user_docs, user_id, [last_nutrition_request |-> request, timestamp |-> t])
merge_chat_turn(convs, user_id, message, response, t) ==
  DocSetMerge(convs, user_id,
              [last_message |-> message, last_response |-> response.output,
               timestamp |-> t])

\* The result of a handler's second step: the answer and the stores after it.
Finish(status, response, ops, cache, user_docs, convs) ==
  [status |-> status, response |-> response, ops |-> ops, cache |-> cache,
   user_docs |-> user_docs, convs |-> convs]

\* generate_routine merging the caller's context whether or not the completion
\* call succeeded.
generate_routine_end_eager_merge(locals, header, outcome, cache, user_docs, convs, t, fault) ==
  LET called == call_llm_api_response(outcome, t)
      response == TheValue(called.value)
      cache_key == TheValue(locals.cache_key)
      user_id == TokenOrAnonymous(header)
      merged == DocSetMerge(user_docs, user_id,
                            [last_routine_request |-> locals.request, timestamp |-> t])
  IN IF Raised(called)
       THEN Finish(endpoint_except(TheValue(called.raised)).status_code, None,
                   <<"llm_failed">>, cache, merged, convs)
     ELSE Finish(200, Some(response),
                 <<"llm_ok", "cache_write", "resolve_identity", "context_write">>,
                 save_to_cache(cache, cache_key, response, t), merged, convs)

\* generate_routine deleting the cache entry again when the context merge
\* fails.
generate_routine_end_rollback(locals, header, outcome, cache, user_docs, convs, t, fault) ==
  LET called == call_llm_api_response(outcome, t)
      response == TheValue(called.value)
      cache_key == TheValue(locals.cache_key)
      user_id == TokenOrAnonymous(header)
      failed == endpoint_except(StorageError).status_code
  IN IF Raised(called)
       THEN Finish(endpoint_except(TheValue(called.raised)).status_code, None,
                   <<"llm_failed">>, cache, user_docs, convs)
     ELSE IF fault = "cache_write"
       THEN Finish(failed, None, <<"llm_ok", "cache_write_raised">>,
                   cache, user_docs, convs)
     ELSE IF fault = "context_write"
       THEN Finish(failed, None,
                   <<"llm_ok", "cache_write", "resolve_identity", "context_write_raised">>,
                   [k \in DOMAIN cache \ {cache_key} |-> cache[k]], user_docs, convs)
     ELSE Finish(200, Some(response),
                 <<"llm_ok", "cache_write", "resolve_identity", "context_write">>,
                 save_to_cache(cache, cache_key, response, t),
                 DocSetMerge(user_docs, user_id,
                             [last_routine_request |-> locals.request,
                              timestamp |-> t]), convs)

\* generate_routine, lines 412-426, from the provider's answer on.
generate_routine_end(locals, header, outcome, cache, user_docs, convs, t, fault) ==
  LET called == call_llm_api_response(outcome, t)
      response == TheValue(called.value)
      cache_key == TheValue(locals.cache_key)
      user_id == TokenOrAnonymous(header)
      failed == endpoint_except(StorageError).status_code
  IN IF Raised(called)
       THEN Finish(endpoint_except(TheValue(called.raised)).status_code, None,
                   <<"llm_failed">>, cache, user_docs, convs)
     ELSE IF fault = "cache_write"
       THEN Finish(failed, None, <<"llm_ok", "cache_write_raised">>,
                   cache, user_docs, convs)
     ELSE IF fault = "context_write"
       THEN Finish(failed, None,
                   <<"llm_ok", "cache_write", "resolve_identity", "context_write_raised">>,
                   save_to_cache(cache, cache_key, response, t), user_docs, convs)
     ELSE Finish(200, Some(response),
                 <<"llm_ok", "cache_write", "resolve_identity", "context_write">>,
                 save_to_cache(cache, cache_key, response, t),
                 merge_routine(user_docs, user_id, locals.request, t), convs)

\* generate_nutrition_plan treating persistence as best effort: a failed
\* cache write or context merge is ignored and the completion is returned.
generate_nutrition_end_best_effort(locals, header, outcome, cache, user_docs, convs, t, fault) ==
  LET called == call_llm_api_response(outcome, t)
      response == TheValue(called.value)
      cache_key == TheValue(locals.cache_key)
      user_id == TheValue(locals.user_id)
  IN IF Raised(called)
       THEN Finish(endpoint_except(TheValue(called.raised)).status_code, None,
                   <<"llm_failed">>, cache, user_docs, convs)
     ELSE IF fault = "cache_write"
       THEN Finish(200, Some(response), <<"llm_ok", "cache_write_raised">>,
                   cache, user_docs, convs)
     ELSE IF fault = "context_write"
       THEN Finish(200, Some(response),
                   <<"llm_ok", "cache_write", "context_write_raised">>,
                   save_to_cache(cache, cache_key, response, t), user_docs, convs)
     ELSE Finish(200, Some(response),
                 <<"llm_ok", "cache_write", "context_write">>,
                 save_to_cache(cache, cache_key, response, t),
                 DocSetMerge(user_docs, user_id,
                             [last_nutrition_request |-> locals.request,
                              timestamp |-> t]), convs)

\* generate_nutrition_plan, lines 455-468, from the provider's answer on.
generate_nutrition_end(locals, header, outcome, cache, user_docs, convs, t, fault) ==
  LET called == call_llm_api_response(outcome, t)
      response == TheValue(called.value)
      cache_key == TheValue(locals.cache_key)
      user_id == TheValue(locals.user_id)
      failed == endpoint_except(StorageError).status_code
  IN IF Raised(called)
       THEN Finish(endpoint_except(TheValue(called.raised)).status_code, None,
                   <<"llm_failed">>, cache, user_docs, convs)
     ELSE IF fault = "cache_write"
       THEN Finish(failed, None, <<"llm_ok", "cache_write_raised">>,
                   cache, user_docs, convs)
     ELSE IF fault = "context_write"
       THEN Finish(failed, None,
                   <<"llm_ok", "cache_write", "context_write_raised">>,
                   save_to_cache(cache, cache_key, response, t), user_docs, convs)
     ELSE Finish(200, Some(response),
                 <<"llm_ok", "cache_write", "context_write">>,
                 save_to_cache(cache, cache_key, response, t),
                 merge_nutrition(user_docs, user_id, locals.request, t), convs)

\* handle_follow_up recording the question in the context document of the
\* body's user_id.
handle_follow_up_end_persisting(locals, header, outcome, cache, user_docs, convs, t, fault) ==
  LET called == call_llm_api_response(outcome, t)
  IN IF Raised(called)
       THEN Finish(endpoint_except(TheValue(called.raised)).status_code, None,
                   <<"llm_failed">>, cache, user_docs, convs)
     ELSE Finish(200, called.value, <<"llm_ok">>, cache,
                 DocSetMerge(user_docs, DictItem(locals.request, "user_id"),
                             [last_follow_up |-> locals.request, timestamp |-> t]),
                 convs)

\* handle_follow_up, lines 475-478, from the provider's answer on.
handle_follow_up_end(locals, header, outcome, cache, user_docs, convs, t, fault) ==
  LET called == call_llm_api_response(outcome, t)
  IN IF Raised(called)
       THEN Finish(endpoint_except(TheValue(called.raised)).status_code, None,
                   <<"llm_failed">>, cache, user_docs, convs)
     ELSE Finish(200, called.value, <<"llm_ok">>, cache, user_docs, convs)

\* process_chat_message, lines 382-396, from the provider's answer on.
process_chat_message_end(locals, header, outcome, cache, user_docs, convs, t, fault) ==
  LET called == call_llm_api_response(outcome, t)
      response == TheValue(called.value)
      user_id == DictItem(locals.request, "user_id")
      failed == endpoint_except(StorageError).status_code
  IN IF Raised(called)
       THEN Finish(endpoint_except(TheValue(called.raised)).status_code, None,
                   <<"llm_failed">>, cache, user_docs, convs)
     ELSE IF fault = "conversation_write"
       THEN Finish(failed, None, <<"llm_ok", "conversation_write_raised">>,
                   cache, user_docs, convs)
     ELSE Finish(200, Some(response), <<"llm_ok", "conversation_write">>,
                 cache, user_docs,
                 merge_chat_turn(convs, user_id, DictItem(locals.request, "message"),
                                 response, t))

(***************************************************************************)
(* Initial state and steps                                                 *)
(***************************************************************************)
Empty == <<>>

Init ==
  /\ API_KEY \in BOOLEAN
  /\ now = 0
  /\ response_cache = Empty
  /\ user_requests = Empty
  /\ conversations = Empty
  /\ inflight = EmptyBag
  /\ started = 0
  /\ budget = MaxRequests
  /\ last = None
  /\ first_done = Empty
  /\ cache_owner = Empty
  /\ completed = {}
  /\ payload = <<>>
  /\ reordered = <<>>
  /\ fingerprints = None

Lookup(coll, id) == IF DocExists(coll, id) THEN Some(coll[id]) ELSE None
Ops(step) == {step.ops[i] : i \in 1..Len(step.ops)}

\* What a handler's first step did: the request received (endpoint, header,
\* body), the step's result, and what the stores held when it ran: the cache
\* document of the request's key (seen), the caller who wrote it, the first
\* answer ever stored for the key, and the caller's context document.
BeginStep(endpoint, header, raw, cache_key, r) ==
  [phase |-> "begin", endpoint |-> endpoint, header |-> header, raw |-> raw,
   locals |-> r.locals, next |-> r.next, status |-> r.status,
   response |-> r.response, ops |-> r.ops, at |-> now, had_key |-> API_KEY,
   seen |-> Lookup(response_cache, cache_key),
   seen_owner |-> Lookup(cache_owner, cache_key),
   first |-> Lookup(first_done, cache_key),
   context |-> Lookup(user_requests, TokenOrAnonymous(header)),
   outcome |-> None]

\* What a handler's second step did, given the provider's outcome.
EndStep(req, f, outcome) ==
  [phase |-> "end", endpoint |-> req.endpoint, header |-> req.header,
   raw |-> req.locals.request, locals |-> req.locals, next |-> "respond",
   status |-> f.status, response |-> f.response, ops |-> f.ops, at |-> now,
   had_key |-> API_KEY, seen |-> None, seen_owner |-> None, first |-> None,
   context |-> None, outcome |-> Some(outcome)]

\* The first step of a handler has produced r.
Begun(endpoint, header, raw, cache_key, r) ==
  /\ started' = started + 1
  /\ inflight' =
       IF r.next = "await"
         THEN inflight (+) SetToBag({[endpoint |-> endpoint, header |-> header,
                                      locals |-> r.locals]})
         ELSE inflight
  /\ last' = Some(BeginStep(endpoint, header, raw, cache_key, r))
  /\ UNCHANGED <<API_KEY, now, stores, budget, history, fpvars>>

\* The second step of the suspended handler req has produced f.
Ended(req, f, outcome) ==
  LET key == req.locals.cache_key
      stored == ~IsNone(key) /\ "cache_write" \in Ops(f)
  IN /\ inflight' = inflight (-) SetToBag({req})
     /\ last' = Some(EndStep(req, f, outcome))
     /\ response_cache' = f.cache
     /\ user_requests' = f.user_docs
     /\ conversations' = f.convs
     /\ first_done' =
          IF stored /\ f.status = 200 /\ ~DocExists(first_done, TheValue(key))
            THEN DocSet(first_done, TheValue(key),
                        [response |-> f.cache[TheValue(key)].response,
                         timestamp |-> f.cache[TheValue(key)].timestamp,
                         by |-> TokenOrAnonymous(req.header)])
            ELSE first_done
     /\ cache_owner' =
          IF stored
            THEN DocSet(cache_owner, TheValue(key), TokenOrAnonymous(req.header))
            ELSE cache_owner
     /\ completed' =
          IF f.status = 200 /\ req.endpoint \in {"routine", "nutrition", "chat"}
            THEN completed \cup
                   {<<req.endpoint,
                      IF req.endpoint = "chat"
                        THEN DictItem(req.locals.request, "user_id")
                        ELSE TokenOrAnonymous(req.header),
                      req.locals.request>>}
            ELSE completed
     /\ UNCHANGED <<API_KEY, now, started, budget, fpvars>>

Suspended(endpoint) == {req \in BagToSet(inflight) : req.endpoint = endpoint}

(***************************************************************************)
(* Actions                                                                 *)
(***************************************************************************)
RoutineBegin ==
  /\ started < budget
  /\ \E request \in RoutineRequests, header \in Headers,
        fault \in {"none", "cache_read"} :
       Begun("routine", header, request, routine_cache_key(request, header),
             generate_routine_begin(request, header, response_cache, API_KEY,
                                    now, fault))

NutritionBegin ==
  /\ started < budget
  /\ \E request \in NutritionRequests, header \in Headers,
        fault \in {"none", "cache_read", "context_read"} :
       Begun("nutrition", header, request, nutrition_cache_key(request, header),
             generate_nutrition_begin(request, header, response_cache,
                                      user_requests, API_KEY, now, fault))

FollowUpBegin ==
  /\ started < budget
  /\ \E request \in FollowUpRequests, header \in Headers :
       Begun("follow_up", header, request, generate_cache_key(request),
             handle_follow_up_begin(request, header, API_KEY))

ChatBegin ==
  /\ started < budget
  /\ \E request \in ChatRequests, header \in Headers,
        fault \in {"none", "context_read"} :
       Begun("chat", header, request, generate_cache_key(request),
             process_chat_message_begin(request, header, user_requests,
                                        API_KEY, fault))

RoutineEnd ==
  \E req \in Suspended("routine"), outcome \in ProviderOutcomes,
     fault \in {"none", "cache_write", "context_write"} :
    Ended(req, generate_routine_end(req.locals, req.header, outcome,
                                    response_cache, user_requests,
                                    conversations, now, fault), outcome)

NutritionEnd ==
  \E req \in Suspended("nutrition"), outcome \in ProviderOutcomes,
     fault \in {"none", "cache_write", "context_write"} :
    Ended(req, generate_nutrition_end(req.locals, req.header, outcome,
                                      response_cache, user_requests,
                                      conversations, now, fault), outcome)

FollowUpEnd ==
  \E req \in Suspended("follow_up"), outcome \in ProviderOutcomes :
    Ended(req, handle_follow_up_end(req.locals, req.header, outcome,
                                    response_cache, user_requests,
                                    conversations, now, "none"), outcome)

ChatEnd ==
  \E req \in Suspended("chat"), outcome \in ProviderOutcomes,
     fault \in {"none", "conversation_write"} :
    Ended(req, process_chat_message_end(req.locals, req.header, outcome,
                                        response_cache, user_requests,
                                        conversations, now, fault), outcome)

\* time.time() advances.
Tick ==
  /\ now < Reading(MaxTicks)
  /\ now' = NextReading(now)
  /\ last' = None
  /\ UNCHANGED <<API_KEY, stores, inflight, started, budget, history, fpvars>>

\* The process is restarted without LLM_API_KEY (lines 40-55); the Firestore
\* collections outlive the process.
Redeploy ==
  /\ API_KEY
  /\ inflight = EmptyBag
  /\ API_KEY' = FALSE
  /\ last' = None
  /\ UNCHANGED <<now, stores, inflight, started, budget, history, fpvars>>

Next ==
  \/ RoutineBegin \/ NutritionBegin \/ FollowUpBegin \/ ChatBegin
  \/ RoutineEnd \/ NutritionEnd \/ FollowUpEnd \/ ChatEnd
  \/ Tick \/ Redeploy

Spec == Init /\ [][Next]_vars

\* The same system receiving one request more.
InitLong ==
  /\ API_KEY \in BOOLEAN
  /\ now = 0
  /\ response_cache = Empty
  /\ user_requests = Empty
  /\ conversations = Empty
  /\ inflight = EmptyBag
  /\ started = 0
  /\ budget = MaxRequestsLong
  /\ last = None
  /\ first_done = Empty
  /\ cache_owner = Empty
  /\ completed = {}
  /\ payload = <<>>
  /\ reordered = <<>>
  /\ fingerprints = None

SpecLong == InitLong /\ [][Next]_vars

(***************************************************************************)
(* The cache key as a pure function: generate_cache_key applied to a       *)
(* payload and to the same payload with its keys in another order.         *)
(***************************************************************************)
\* The orderings of a set of keys.
Orderings(S) ==
  {o \in [1..Cardinality(S) -> S] : \A i, j \in 1..Cardinality(S) : i # j => o[i] # o[j]}

NestedMappings ==
  UNION {{[i \in 1..Cardinality(S) |-> <<o[i], v[o[i]]>>] :
            o \in Orderings(S), v \in [S -> {"1", "2"}]} :
         S \in SUBSET {"x", "y"}}

\* Mappings with scalar members "a", "b" and a nested mapping "m".
Payloads ==
  UNION {{[i \in 1..Cardinality(S) |->
             <<o[i], IF o[i] = "m" THEN n ELSE v[o[i]]>>] :
            o \in Orderings(S), v \in [S -> {"1", "2"}], n \in NestedMappings} :
         S \in SUBSET {"a", "b", "m"}}

\* d with its members, and those of every nested mapping, in reverse order.
RECURSIVE ReverseDict(_)
ReverseDict(d) ==
  [i \in 1..Len(d) |->
     LET p == d[Len(d) + 1 - i]
     IN <<p[1], IF p[1] \in MapKeys THEN ReverseDict(p[2]) ELSE p[2]>>]

RequestBodies == RoutineRequests \cup NutritionRequests \cup FollowUpRequests

\* Python's d1 == d2 for dicts: the same keys with equal values, in any order.
RECURSIVE DictEq(_, _)
DictEq(d1, d2) ==
  /\ DictKeys(d1) = DictKeys(d2)
  /\ \A k \in DictKeys(d1) :
       IF k \in MapKeys THEN DictEq(DictItem(d1, k), DictItem(d2, k))
                        ELSE DictItem(d1, k) = DictItem(d2, k)

InitPure ==
  /\ API_KEY = TRUE
  /\ now = 0
  /\ response_cache = Empty
  /\ user_requests = Empty
  /\ conversations = Empty
  /\ inflight = EmptyBag
  /\ started = 0
  /\ budget = 0
  /\ last = None
  /\ first_done = Empty
  /\ cache_owner = Empty
  /\ completed = {}
  /\ \/ /\ payload \in Payloads
        /\ reordered \in {q \in Payloads : DictEq(payload, q)}
     \/ /\ payload \in RequestBodies
        /\ reordered \in {payload, ReverseDict(payload)}
  /\ fingerprints = None

\* The handler computes the cache key of both.
Fingerprint ==
  /\ fingerprints = None
  /\ fingerprints' = Some(<<generate_cache_key(payload), generate_cache_key(reordered)>>)
  /\ UNCHANGED <<API_KEY, now, stores, inflight, started, budget, last, history,
                 payload, reordered>>

SpecPure == InitPure /\ [][Fingerprint]_vars

(***************************************************************************)
(* Claims                                                                  *)
(***************************************************************************)
IsStep == ~IsNone(last)
Step == TheValue(last)
Caller(step) == TokenOrAnonymous(step.header)
CacheOps == {"cache_read", "cache_read_raised", "cache_write", "cache_write_raised"}
Age(step, doc) == step.at - doc.timestamp

BeginOf(step, endpoints) == step.phase = "begin" /\ step.endpoint \in endpoints
EndOf(step, endpoints) == step.phase = "end" /\ step.endpoint \in endpoints
Seen(step) == TheValue(step.seen)
First(step) == TheValue(step.first)
\* The storage read of the cache lookup returned / raised.
ReadReturned(step) == "cache_read" \in Ops(step)
ReadRaised(step) == "cache_read_raised" \in Ops(step)
AnsweredFromCache(step) ==
  /\ step.next = "respond"
  /\ step.status = 200
  /\ ~IsNone(step.seen)
  /\ step.response = Some(Seen(step).response)

\* C1 (as amended): a routine request that arrives less than CACHE_TIMEOUT
\* after the first successful answer for its body was stored makes no
\* completion call and finds a cache entry that is that answer or one stored
\* later for the same body (by a request that was already waiting for the
\* provider); it answers 200 with exactly the entry's response if the storage
\* read returns, and 500 if the read raises.
C1_RepeatAnsweredFromCache ==
  (IsStep /\ BeginOf(Step, {"routine"}) /\ ~IsNone(Step.first)
     /\ Age(Step, First(Step)) < CACHE_TIMEOUT)
  => /\ "llm_post" \notin Ops(Step)
     /\ Step.next = "respond"
     /\ ~IsNone(Step.seen)
     /\ Seen(Step).timestamp >= First(Step).timestamp
     /\ Seen(Step).timestamp = Seen(Step).response.timestamp
     /\ ReadReturned(Step) => AnsweredFromCache(Step)
     /\ ReadRaised(Step) => Step.status = 500 /\ IsNone(Step.response)
     /\ ReadReturned(Step) \/ ReadRaised(Step)

\* C1 happens: a third routine request within the timeout of the first stored
\* answer is answered with an answer stored after the first one.
C1_Witness ==
  /\ IsStep /\ BeginOf(Step, {"routine"}) /\ ~IsNone(Step.first)
  /\ Age(Step, First(Step)) < CACHE_TIMEOUT
  /\ AnsweredFromCache(Step)
  /\ Seen(Step).timestamp > First(Step).timestamp

\* C1 as stated: any routine request arriving less than CACHE_TIMEOUT after
\* the first successful answer R for its body was stored returns exactly R and
\* makes no completion call (taken here only where the storage read returns).
C1_AsStated ==
  (IsStep /\ BeginOf(Step, {"routine"}) /\ ~IsNone(Step.first)
     /\ Age(Step, First(Step)) < CACHE_TIMEOUT /\ ReadReturned(Step))
  => /\ "llm_post" \notin Ops(Step)
     /\ Step.status = 200
     /\ Step.response = Some(First(Step).response)

\* C2 (as amended): the routine cache key is computed from the body alone, so
\* every caller addresses the same entry for the same body; a caller other
\* than the one whose request wrote the entry, arriving while the entry is
\* younger than CACHE_TIMEOUT, makes no completion call and is answered with
\* the entry's response (500 if the storage read raises).  The entry is the
\* result of the last request that stored one for the body, which need not be
\* the request that completed first.
C2_KeyIgnoresCaller ==
  (IsStep /\ BeginOf(Step, {"routine"}))
  => /\ \A h1, h2 \in Headers :
          routine_cache_key(Step.raw, h1) = routine_cache_key(Step.raw, h2)
     /\ Step.locals.cache_key = Some(generate_cache_key(Step.raw))
     /\ (~IsNone(Step.seen_owner) /\ TheValue(Step.seen_owner) # Caller(Step)
           /\ Age(Step, Seen(Step)) < CACHE_TIMEOUT)
        => /\ "llm_post" \notin Ops(Step)
           /\ ReadReturned(Step) => AnsweredFromCache(Step)
           /\ ReadRaised(Step) => Step.status = 500
           /\ ReadReturned(Step) \/ ReadRaised(Step)

\* C2 happens: a caller is answered from an entry written by another caller's
\* request.
C2_Witness ==
  /\ IsStep /\ BeginOf(Step, {"routine"})
  /\ ~IsNone(Step.seen_owner) /\ TheValue(Step.seen_owner) # Caller(Step)
  /\ AnsweredFromCache(Step)
  /\ Caller(Step) = "anonymous"

\* C2 as stated: if X's request completed first, another caller Y sending the
\* same body within the timeout receives X's cached result.
C2_AsStated ==
  (IsStep /\ BeginOf(Step, {"routine"}) /\ ~IsNone(Step.first)
     /\ First(Step).by # Caller(Step)
     /\ Age(Step, First(Step)) < CACHE_TIMEOUT /\ ReadReturned(Step))
  => /\ Step.status = 200
     /\ Step.seen_owner = Some(First(Step).by)
     /\ Step.response = Some(Seen(Step).response)

\* The caller's context document holds a last routine request with peak mode
\* "Focus" and the challenge "sleep".
HasFocusSleepRoutine(step) ==
  /\ ~IsNone(step.context)
  /\ "last_routine_request" \in DOMAIN TheValue(step.context)
  /\ DictItem(TheValue(step.context).last_routine_request, "peak_mode") = "Focus"
  /\ DictItem(TheValue(step.context).last_routine_request, "challenges") = <<"sleep">>

\* C3 as stated: when the caller has a stored last routine request with peak
\* mode "Focus" and challenges ["sleep"], the prompt that a nutrition request
\* missing the cache sends to the provider contains "Focus" and "sleep".
C3_AsStated ==
  (IsStep /\ BeginOf(Step, {"nutrition"}) /\ Step.next = "await"
     /\ HasFocusSleepRoutine(Step))
  => /\ Contains(TheValue(Step.locals.prompt), "Focus")
     /\ Contains(TheValue(Step.locals.prompt), "sleep")

C5_AsStated ==
  (IsStep /\ BeginOf(Step, {"routine", "nutrition"}) /\ ReadRaised(Step))
  => /\ "build_prompt" \in Ops(Step)
     /\ Step.had_key => Step.next = "await" /\ "llm_post" \in Ops(Step)

\* C6: a lookup (whose storage read returns) of a key last stored at time t
\* returns the stored response when made less than CACHE_TIMEOUT after t, and
\* nothing when made more than CACHE_TIMEOUT after t although the document is
\* still there; a store writes the response with the time of the store.
C6_CacheTTL ==
  IsStep =>
    /\ (BeginOf(Step, {"routine", "nutrition"}) /\ ReadReturned(Step)
          /\ ~IsNone(Step.seen))
       => /\ Age(Step, Seen(Step)) < CACHE_TIMEOUT
               => Step.locals.cached_response = Some(Seen(Step).response)
          /\ Age(Step, Seen(Step)) > CACHE_TIMEOUT
               => /\ IsNone(Step.locals.cached_response)
                  /\ DocExists(response_cache, TheValue(Step.locals.cache_key))
                  /\ response_cache[TheValue(Step.locals.cache_key)] = Seen(Step)
    /\ (EndOf(Step, {"routine", "nutrition"}) /\ "cache_write" \in Ops(Step))
       => /\ DocExists(response_cache, TheValue(Step.locals.cache_key))
          /\ response_cache[TheValue(Step.locals.cache_key)].timestamp = Step.at
          /\ check_cache(response_cache, TheValue(Step.locals.cache_key), Step.at)
               = Some(response_cache[TheValue(Step.locals.cache_key)].response)
          /\ Step.status = 200
               => Step.response
                    = Some(response_cache[TheValue(Step.locals.cache_key)].response)

\* C6 happens: a lookup finds a document older than CACHE_TIMEOUT and returns
\* nothing.
C6_Witness ==
  /\ IsStep /\ BeginOf(Step, {"routine", "nutrition"}) /\ ReadReturned(Step)
  /\ ~IsNone(Step.seen)
  /\ Age(Step, Seen(Step)) > CACHE_TIMEOUT
  /\ IsNone(Step.locals.cached_response)

\* C7: fingerprint determinism.  Two payloads that are equal by value (the
\* same keys with the same values, at the top level and in every nested
\* mapping, in whatever order the keys were inserted) get the same cache key.
C7_FingerprintDeterminism ==
  ~IsNone(fingerprints) =>
    /\ DictEq(payload, reordered)
    /\ TheValue(fingerprints)[1] = TheValue(fingerprints)[2]
    /\ TheValue(fingerprints)[1] = generate_cache_key(ReverseDict(payload))

\* C7 happens: keys computed for a payload and a reordering of it that differ
\* in the order of the top-level keys and of the nested mapping's keys.
C7_Witness ==
  /\ ~IsNone(fingerprints)
  /\ HasKey(payload, "m")
  /\ payload[1][1] # reordered[1][1]
  /\ DictItem(payload, "m") # DictItem(reordered, "m")
  /\ Len(DictItem(payload, "m")) = 2

\* The step just taken, seen from the state before it.
StepTaken == TheValue(last')
ChatCaller(step) == DictItem(step.locals.request, "user_id")

\* C8: a chat request neither reads nor writes the response cache: no step of
\* the chat handler performs a cache operation or changes response_cache, and a
\* chat request is answered 200 only after its own completion call returned;
\* with a key and no storage fault every chat request calls the provider.
C8_ChatBypassesCache ==
  /\ [](IsStep /\ Step.endpoint = "chat"
          => /\ Ops(Step) \cap CacheOps = {}
             /\ IsNone(Step.locals.cache_key)
             /\ IsNone(Step.locals.cached_response)
             /\ Step.phase = "begin" => Step.status # 200
             /\ Step.status = 200
                  => /\ "llm_ok" \in Ops(Step)
                     /\ TheValue(Step.outcome).kind = "ok"
                     /\ TheValue(Step.response).output = TheValue(Step.outcome).output
             /\ (Step.phase = "begin" /\ Step.had_key
                   /\ "context_read_raised" \notin Ops(Step))
                  => Step.next = "await" /\ "llm_post" \in Ops(Step))
  /\ [][(~IsNone(last') /\ StepTaken.endpoint = "chat")
          => response_cache' = response_cache]_vars

\* C8 happens: a chat message identical to the caller's previous one, already
\* answered, is sent to the provider again.
C8_Witness ==
  /\ IsStep /\ BeginOf(Step, {"chat"})
  /\ Step.next = "await"
  /\ DocExists(conversations, ChatCaller(Step))
  /\ conversations[ChatCaller(Step)].last_message = DictItem(Step.locals.request, "message")

\* The collection new is old with only the named fields and the timestamp of
\* document id written.
PartialUpdate(old, new, id, named) ==
  /\ DOMAIN new = DOMAIN old \cup {id}
  /\ \A other \in DOMAIN old \ {id} : new[other] = old[other]
  /\ DOMAIN new[id] =
       (IF DocExists(old, id) THEN DOMAIN old[id] ELSE {}) \cup named \cup {"timestamp"}
  /\ DocExists(old, id)
       => \A field \in DOMAIN old[id] \ (named \cup {"timestamp"}) :
            new[id][field] = old[id][field]

\* C9: a context write changes only its named fields and the timestamp of the
\* caller's document: the routine merge last_routine_request, the nutrition
\* merge last_nutrition_request, the chat-turn merge last_message and
\* last_response (of the caller's conversations document); every other field
\* of the document, every other document and the other collection stay as they
\* were, and a step without a context write changes no context document.
C9_PartialUpdate ==
  [][~IsNone(last') =>
       /\ (EndOf(StepTaken, {"routine"}) /\ "context_write" \in Ops(StepTaken))
          => /\ PartialUpdate(user_requests, user_requests', Caller(StepTaken),
                              {"last_routine_request"})
             /\ user_requests'[Caller(StepTaken)].last_routine_request
                  = StepTaken.locals.request
             /\ user_requests'[Caller(StepTaken)].timestamp = now
             /\ conversations' = conversations
       /\ (EndOf(StepTaken, {"nutrition"}) /\ "context_write" \in Ops(StepTaken))
          => /\ PartialUpdate(user_requests, user_requests', Caller(StepTaken),
                              {"last_nutrition_request"})
             /\ user_requests'[Caller(StepTaken)].last_nutrition_request
                  = StepTaken.locals.request
             /\ user_requests'[Caller(StepTaken)].timestamp = now
             /\ conversations' = conversations
       /\ (EndOf(StepTaken, {"chat"}) /\ "conversation_write" \in Ops(StepTaken))
          => /\ PartialUpdate(conversations, conversations', ChatCaller(StepTaken),
                              {"last_message", "last_response"})
             /\ conversations'[ChatCaller(StepTaken)].timestamp = now
             /\ user_requests' = user_requests
       /\ Ops(StepTaken) \cap {"context_write", "conversation_write"} = {}
          => UNCHANGED <<user_requests, conversations>>]_vars

\* C9 happens: a nutrition merge into a document that holds the caller's last
\* routine request has kept that request.
C9_Witness ==
  /\ IsStep /\ EndOf(Step, {"nutrition"}) /\ "context_write" \in Ops(Step)
  /\ DocExists(user_requests, Caller(Step))
  /\ DOMAIN user_requests[Caller(Step)]
       = {"last_routine_request", "last_nutrition_request", "timestamp"}
  /\ DictItem(user_requests[Caller(Step)].last_routine_request, "peak_mode") = "Focus"

\* C10 as stated: when the provider answers with a non-success status s the
\* caller receives status s, and when the provider cannot be reached the
\* caller receives 503; only other failures give 500.
C10_AsStated ==
  (IsStep /\ Step.phase = "end")
  => /\ TheValue(Step.outcome).kind = "status"
          => Step.status = TheValue(Step.outcome).status
     /\ TheValue(Step.outcome).kind = "client_error" => Step.status = 503

\* The operations on the external store, and the ones on the context store.
StorageOps ==
  CacheOps \cup {"context_read", "context_read_raised", "context_write",
                 "context_write_raised", "conversation_write",
                 "conversation_write_raised"}
ContextOps == StorageOps \ CacheOps
Position(ops, op) == CHOOSE i \in 1..Len(ops) : ops[i] = op
\* Operation a was performed, and before every operation of the set later.
Precedes(step, a, later) ==
  /\ a \in Ops(step)
  /\ \A i \in 1..Len(step.ops) :
       step.ops[i] \in later => Position(step.ops, a) < i

C12_AsStated ==
  IsStep =>
    /\ (Step.endpoint = "chat" /\ ~IsNone(Step.locals.user_id))
         => ChatCaller(Step) = Caller(Step)
    /\ (Step.endpoint = "nutrition" /\ ~IsNone(Step.locals.user_id))
         => TheValue(Step.locals.user_id) = Caller(Step)

\* C13 (as amended): a nutrition request looks up and writes the cache under
\* the fingerprint of its raw body, whoever the caller is and whatever routine
\* the caller has stored; the caller's context is read for enrichment only
\* after a cache miss.  A caller other than the one whose request wrote the
\* entry, arriving while the entry is younger than CACHE_TIMEOUT, is answered
\* with the entry's response without enrichment and without a completion call
\* (500 if the storage read raises).  The entry is the result of the last
\* request that stored one for the body.
C13_NutritionKeyIsRawBody ==
  IsStep =>
    /\ BeginOf(Step, {"nutrition"})
         => /\ \A h1, h2 \in Headers :
                 nutrition_cache_key(Step.raw, h1) = nutrition_cache_key(Step.raw, h2)
            /\ Step.locals.cache_key = Some(generate_cache_key(Step.raw))
            /\ HasKey(Step.raw, "peak_mode") = FALSE
            /\ "context_read" \in Ops(Step)
                 => /\ Precedes(Step, "cache_read", {"context_read"})
                    /\ IsNone(Step.locals.cached_response)
            /\ Step.status = 200
                 => AnsweredFromCache(Step) /\ Ops(Step) \cap ContextOps = {}
            /\ (~IsNone(Step.seen_owner) /\ TheValue(Step.seen_owner) # Caller(Step)
                  /\ Age(Step, Seen(Step)) < CACHE_TIMEOUT)
               => /\ "llm_post" \notin Ops(Step)
                  /\ ReadReturned(Step) => AnsweredFromCache(Step)
                  /\ ReadRaised(Step) => Step.status = 500
                  /\ ReadReturned(Step) \/ ReadRaised(Step)
    /\ (EndOf(Step, {"nutrition"}) /\ "cache_write" \in Ops(Step))
         => /\ Step.locals.cache_key = Some(generate_cache_key(Step.locals.request))
            /\ Step.locals.request \in NutritionRequests
            /\ response_cache[generate_cache_key(Step.locals.request)].timestamp = Step.at

\* C13 happens: a caller without a stored routine is answered from the entry
\* written by the request of a caller with a stored routine.
C13_Witness ==
  /\ IsStep /\ BeginOf(Step, {"nutrition"})
  /\ AnsweredFromCache(Step)
  /\ Step.seen_owner = Some("X") /\ Caller(Step) = "anonymous"
  /\ DocExists(user_requests, "X")
  /\ "last_routine_request" \in DOMAIN user_requests["X"]
  /\ IsNone(Step.context)

\* C13 as stated: of two callers sending the same NutritionRequest body, the
\* second within the timeout receives the response generated for the first.
C13_AsStated ==
  (IsStep /\ BeginOf(Step, {"nutrition"}) /\ ~IsNone(Step.first)
     /\ First(Step).by # Caller(Step)
     /\ Age(Step, First(Step)) < CACHE_TIMEOUT /\ ReadReturned(Step))
  => /\ Step.status = 200
     /\ Step.seen_owner = Some(First(Step).by)
     /\ Step.response = Some(Seen(Step).response)

\* The rendering of a list that the specification asks for: its elements
\* joined by commas, "None" for the empty list.
JoinedOrNone(list) == IF list # <<>> THEN Join(list) ELSE <<"None">>

\* C14 as stated: the nutrition prompt renders food_sensitivities and
\* existing_supplements each as the comma-joined list of its elements, and as
\* "None" (never as an empty value) when the list is empty.
C14_AsStated ==
  (IsStep /\ BeginOf(Step, {"nutrition"}) /\ Step.next = "await")
  => /\ Line(TheValue(Step.locals.prompt), "Food Sensitivities")
          = JoinedOrNone(DictItem(Step.raw, "food_sensitivities"))
     /\ Line(TheValue(Step.locals.prompt), "Existing Supplements")
          = JoinedOrNone(DictItem(Step.raw, "existing_supplements"))
     /\ Line(TheValue(Step.locals.prompt), "Existing Supplements") # <<>>

\* C15: a follow-up request, successful or failed, performs no cache lookup,
\* no cache write and no read or write of the context store; the response
\* cache, the context documents and the conversations are unchanged by it.
C15_FollowUpStateless ==
  /\ [](IsStep /\ Step.endpoint = "follow_up"
          => /\ Ops(Step) \cap StorageOps = {}
             /\ IsNone(Step.locals.cache_key)
             /\ IsNone(Step.locals.cached_response)
             /\ IsNone(Step.locals.user_id)
             /\ Step.status = 200 => Step.phase = "end" /\ "llm_ok" \in Ops(Step))
  /\ [][(~IsNone(last') /\ StepTaken.endpoint = "follow_up")
          => UNCHANGED <<response_cache, user_requests, conversations>>]_vars

\* C15 happens: a follow-up of caller X is answered by the provider while X
\* has a context document and the cache an entry.
C15_Witness ==
  /\ IsStep /\ EndOf(Step, {"follow_up"}) /\ Step.status = 200
  /\ DocExists(user_requests, DictItem(Step.locals.request, "user_id"))
  /\ response_cache # Empty

\* The writes to the external store, and the ways a request fails before it
\* has a completion: the credential check, the completion call, and the
\* context read of enrichment and of chat prompt construction.
WriteOps ==
  {"cache_write", "cache_write_raised", "context_write", "context_write_raised",
   "conversation_write", "conversation_write_raised"}
FailedBeforePersist(step) ==
  Ops(step) \cap {"credential_missing", "llm_failed", "context_read_raised"} # {}

\* C16: in the routine, nutrition and chat handlers every cache write and
\* every context or chat-turn merge comes after a completion call that
\* returned successfully; a request that fails at prompt construction, at the
\* credential check or in the completion call ends in failure and leaves the
\* response cache, the context documents and the conversations as they were.
C16_PersistOnlyAfterSuccess ==
  /\ [](IsStep /\ Step.endpoint \in {"routine", "nutrition", "chat"}
          => /\ Ops(Step) \cap WriteOps # {}
                  => /\ Step.phase = "end"
                     /\ Precedes(Step, "llm_ok", WriteOps)
                     /\ TheValue(Step.outcome).kind = "ok"
             /\ FailedBeforePersist(Step)
                  => /\ Step.status >= 400
                     /\ IsNone(Step.response)
                     /\ Ops(Step) \cap WriteOps = {}
             /\ (Step.phase = "end" /\ TheValue(Step.outcome).kind # "ok")
                  => "llm_failed" \in Ops(Step))
  /\ [][(~IsNone(last') /\ StepTaken.endpoint \in {"routine", "nutrition", "chat"}
           /\ FailedBeforePersist(StepTaken))
          => UNCHANGED <<response_cache, user_requests, conversations>>]_vars

\* C16 happens: the completion call of a request fails while the cache and the
\* context store hold the results of another request.
C16_Witness ==
  /\ IsStep /\ EndOf(Step, {"routine", "nutrition", "chat"})
  /\ "llm_failed" \in Ops(Step)
  /\ Step.status >= 400
  /\ response_cache # Empty /\ user_requests # Empty

RaisedWrites == {"cache_write_raised", "context_write_raised", "conversation_write_raised"}

\* C17: when the completion call succeeded and the cache write, the context
\* merge or the chat-turn merge that follows raises a storage error, the
\* routine, nutrition or chat request ends with 500 and the completion is not
\* returned to the caller; the writes after the failed one are not attempted.
C17_PersistFailureFailsRequest ==
  (IsStep /\ Step.endpoint \in {"routine", "nutrition", "chat"}
     /\ Ops(Step) \cap RaisedWrites # {})
  => /\ Step.phase = "end"
     /\ TheValue(Step.outcome).kind = "ok"
     /\ Precedes(Step, "llm_ok", RaisedWrites)
     /\ Step.status = 500
     /\ IsNone(Step.response)
     /\ Step.ops[Len(Step.ops)] \in RaisedWrites
     /\ Cardinality(Ops(Step) \cap RaisedWrites) = 1

\* C17 happens: the context merge of a nutrition request raises after the
\* completion was obtained and cached.
C17_Witness ==
  /\ IsStep /\ EndOf(Step, {"nutrition"})
  /\ "context_write_raised" \in Ops(Step)
  /\ "cache_write" \in Ops(Step)
  /\ Step.status = 500

\* The bodies of the requests of identity id to endpoint that were answered
\* by the provider and persisted.
CompletedBodies(endpoint, id) ==
  {c[3] : c \in {d \in completed : d[1] = endpoint /\ d[2] = id}}

\* C18: whatever the interleaving of the routine, nutrition and chat requests
\* of one identity, once a routine request of the identity has completed
\* successfully its context document holds last_routine_request (a routine
\* body it sent), once a nutrition request has, it holds
\* last_nutrition_request (a raw nutrition body it sent), and once a chat
\* request has, its conversations document holds the message; no merge erases
\* a field written by another.
C18_NoLostUpdate ==
  \A id \in {"anonymous", "X"} :
    /\ CompletedBodies("routine", id) # {}
         => /\ DocExists(user_requests, id)
            /\ "last_routine_request" \in DOMAIN user_requests[id]
            /\ user_requests[id].last_routine_request \in CompletedBodies("routine", id)
    /\ CompletedBodies("nutrition", id) # {}
         => /\ DocExists(user_requests, id)
            /\ "last_nutrition_request" \in DOMAIN user_requests[id]
            /\ user_requests[id].last_nutrition_request
                 \in CompletedBodies("nutrition", id) \cap NutritionRequests
    /\ CompletedBodies("chat", id) # {}
         => /\ DocExists(conversations, id)
            /\ \E body \in CompletedBodies("chat", id) :
                 conversations[id].last_message = DictItem(body, "message")

\* C18 happens: a nutrition request that began before the caller's routine
\* was stored (its prompt is not enriched) completes after the routine merge
\* and a chat turn of the same caller; the document holds both requests.
C18_Witness ==
  /\ IsStep /\ EndOf(Step, {"nutrition"}) /\ Step.status = 200
  /\ ~Contains(TheValue(Step.locals.prompt), "Focus")
  /\ inflight = EmptyBag
  /\ CompletedBodies("routine", Caller(Step)) # {}
  /\ CompletedBodies("chat", Caller(Step)) # {}
  /\ DOMAIN user_requests[Caller(Step)]
       = {"last_routine_request", "last_nutrition_request", "timestamp"}

\* C19: a routine or nutrition request answered from the cache performs
\* nothing but the cache read: no context merge, no store changes.  A context
\* document therefore holds last_routine_request (last_nutrition_request) only
\* if a routine (nutrition) request of that identity was answered by the
\* provider, and a nutrition request of a caller without a stored routine is
\* sent to the provider without enrichment.
C19_HitSkipsPersistence ==
  /\ [](IsStep /\ BeginOf(Step, {"routine", "nutrition"}) /\ Step.status = 200
          => /\ AnsweredFromCache(Step)
             /\ Step.ops = <<"cache_read">>
             /\ IsNone(Step.locals.user_id))
  /\ [][(~IsNone(last') /\ StepTaken.phase = "begin")
          => UNCHANGED <<response_cache, user_requests, conversations>>]_vars
  /\ [](\A id \in DOMAIN user_requests :
          /\ "last_routine_request" \in DOMAIN user_requests[id]
               => CompletedBodies("routine", id) # {}
          /\ "last_nutrition_request" \in DOMAIN user_requests[id]
               => CompletedBodies("nutrition", id) # {})
  /\ [](IsStep /\ BeginOf(Step, {"nutrition"}) /\ Step.next = "await"
          /\ (IsNone(Step.context)
                \/ "last_routine_request" \notin DOMAIN TheValue(Step.context))
          => /\ Line(TheValue(Step.locals.prompt), "Peak Mode") = <<"Physique">>
             /\ ~Contains(TheValue(Step.locals.prompt), "Focus")
             /\ ~Contains(TheValue(Step.locals.prompt), "sleep"))

\* C19 happens: a routine request of a caller without a context document is
\* answered from the cache, and the caller still has no document.
C19_Witness ==
  /\ IsStep /\ BeginOf(Step, {"routine"})
  /\ AnsweredFromCache(Step)
  /\ ~DocExists(user_requests, Caller(Step))
  /\ user_requests # Empty

\* C20: when the cache write of a routine or nutrition request succeeds and
\* the context merge after it raises, the request ends with 500, the context
\* store is unchanged and the cache entry just written stays; a later request
\* with the same body that finds the entry younger than CACHE_TIMEOUT (also
\* when no request for the body ever succeeded) is answered 200 with it,
\* performing nothing but the cache read.
C20_NoRollback ==
  /\ [](IsStep /\ EndOf(Step, {"routine", "nutrition"})
          /\ "context_write_raised" \in Ops(Step)
          => /\ Step.status = 500 /\ IsNone(Step.response)
             /\ Precedes(Step, "cache_write", {"context_write_raised"})
             /\ DocExists(response_cache, TheValue(Step.locals.cache_key))
             /\ response_cache[TheValue(Step.locals.cache_key)].timestamp = Step.at
             /\ response_cache[TheValue(Step.locals.cache_key)].response.output
                  = TheValue(Step.outcome).output)
  /\ [][(~IsNone(last') /\ "context_write_raised" \in Ops(StepTaken))
          => UNCHANGED <<user_requests, conversations>>]_vars
  /\ [](IsStep /\ BeginOf(Step, {"routine", "nutrition"}) /\ ~IsNone(Step.seen)
          /\ Age(Step, Seen(Step)) < CACHE_TIMEOUT /\ ReadReturned(Step)
          => /\ AnsweredFromCache(Step)
             /\ Step.ops = <<"cache_read">>)
  /\ [](\A key \in DOMAIN response_cache : key \in DOMAIN cache_owner)

\* C20 happens: a retry is answered from an entry left by a request that
\* failed at its context merge; no request for the body ever succeeded and the
\* caller has no context document.
C20_Witness ==
  /\ IsStep /\ BeginOf(Step, {"routine", "nutrition"})
  /\ AnsweredFromCache(Step)
  /\ IsNone(Step.first)
  /\ Step.seen_owner = Some(Caller(Step))
  /\ IsNone(Step.context)
  /\ ~DocExists(user_requests, Caller(Step))

\* C21 (as amended): a lookup whose storage read returns yields the stored
\* response exactly when the document exists and now - timestamp < 86400, and
\* nothing when now - timestamp >= 86400: an entry whose age is exactly 86400
\* seconds is already treated as absent, and the request goes on as on a miss.
\* (A lookup whose storage read raises yields nothing and the request ends
\* with 500.)
C21_TTLBoundary ==
  (IsStep /\ BeginOf(Step, {"routine", "nutrition"}))
  => /\ ReadReturned(Step) =>
          /\ IsNone(Step.locals.cached_response)
               <=> (IsNone(Step.seen) \/ Age(Step, Seen(Step)) >= CACHE_TIMEOUT)
          /\ ~IsNone(Step.locals.cached_response)
               => /\ Step.locals.cached_response = Some(Seen(Step).response)
                  /\ Age(Step, Seen(Step)) < CACHE_TIMEOUT
                  /\ AnsweredFromCache(Step)
          /\ (~IsNone(Step.seen) /\ Age(Step, Seen(Step)) = CACHE_TIMEOUT)
               => /\ Step.status # 200
                  /\ "context_read_raised" \notin Ops(Step)
                       => "build_prompt" \in Ops(Step)
                  /\ (Step.had_key /\ "context_read_raised" \notin Ops(Step))
                       => Step.next = "await" /\ "llm_post" \in Ops(Step)
     /\ ReadRaised(Step) =>
          IsNone(Step.locals.cached_response) /\ Step.status = 500
     /\ ReadReturned(Step) \/ ReadRaised(Step)

\* C21 happens: a lookup finds a document of age exactly CACHE_TIMEOUT and
\* returns nothing.
C21_Witness ==
  /\ IsStep /\ BeginOf(Step, {"routine", "nutrition"}) /\ ReadReturned(Step)
  /\ ~IsNone(Step.seen)
  /\ Age(Step, Seen(Step)) = CACHE_TIMEOUT
  /\ IsNone(Step.locals.cached_response)
  /\ Step.next = "await"

\* C21 as stated: a lookup of a stored entry returns nothing exactly when
\* now - timestamp > 86400; an entry of age exactly 86400 is still returned.
C21_AsStated ==
  (IsStep /\ BeginOf(Step, {"routine", "nutrition"}) /\ ReadReturned(Step)
     /\ ~IsNone(Step.seen))
  => /\ IsNone(Step.locals.cached_response)
          <=> Age(Step, Seen(Step)) > CACHE_TIMEOUT
     /\ Age(Step, Seen(Step)) = CACHE_TIMEOUT
          => Step.locals.cached_response = Some(Seen(Step).response)

====
